---- MODULE Spec2Model ----
(***************************************************************************)
(* generate_optimal_parameter_table (src/hyperparameter_tuning.py): read a *)
(* CSV of tuning results, reduce every (configuration, sample_size,        *)
(* iteration) group to one summary row, order the columns, write the table *)
(* as CSV and HTML, print a notification and return the table.             *)
(*                                                                         *)
(* A column name is a sequence of fragments, "param_" being one fragment:  *)
(* param_lr is <<"param_", "lr">>.  A cell of the input file is its text.  *)
(* A value of a data frame is a record [t, n, s]: t is "int", "float",     *)
(* "bool", "str" or "nan", n the number (1 for True), s the string.        *)
(***************************************************************************)
EXTENDS Integers, Sequences, FiniteSets

VARIABLES file, fs, pc, results_df, param_columns, groups, group, row, j,
          rows, df_summary, stdout, outcome, trace, calls, returns

vars == <<file, fs, pc, results_df, param_columns, groups, group, row, j,
          rows, df_summary, stdout, outcome, trace, calls, returns>>

\* Bounds of the model.
MaxRows == 3
MaxFileRows == 2
MaxCalls == 2

----------------------------------------------------------------------------
\* Sequences and orders

Range(s) == {s[i] : i \in DOMAIN s}

Last(s) == s[Len(s)]

RECURSIVE SeqsUpTo(_, _)
SeqsUpTo(S, n) ==
    IF n = 0 THEN {<<>>}
    ELSE LET shorter == SeqsUpTo(S, n - 1)
         IN  shorter \cup {Append(s, x) : s \in {t \in shorter : Len(t) = n - 1}, x \in S}

\* Position of x in the sequence s (0 when absent).
IndexOf(s, x) ==
    IF x \in Range(s) THEN CHOOSE i \in DOMAIN s : s[i] = x /\ \A k \in 1..(i - 1) : s[k] # x
    ELSE 0

\* Python's ordinal order of the strings that occur, ascending.
Ordinal == <<"", "1", "100", "20", "3", "7", "False", "N/A", "True", "a_", "adam", "b",
             "cfgA", "cfgB",
             "configuration", "iteration", "lr", "opt", "param_", "sample_size", "sgd">>

StrLess(a, b) == IndexOf(Ordinal, a) < IndexOf(Ordinal, b)

\* Order of two column names: str.__lt__ on the joined fragments (no fragment
\* is a prefix of another, so comparing by fragment is comparing by character).
RECURSIVE NameLess(_, _)
NameLess(a, b) ==
    IF b = <<>> THEN FALSE
    ELSE IF a = <<>> THEN TRUE
    ELSE IF Head(a) # Head(b) THEN StrLess(Head(a), Head(b))
    ELSE NameLess(Tail(a), Tail(b))

\* The text of a column name.
RECURSIVE Join(_)
Join(name) == IF name = <<>> THEN "" ELSE Head(name) \o Join(Tail(name))

----------------------------------------------------------------------------
\* Values

NaN == [t |-> "nan", n |-> 0, s |-> ""]
IntVal(k) == [t |-> "int", n |-> k, s |-> ""]
FloatVal(k) == [t |-> "float", n |-> k, s |-> ""]
BoolVal(k) == [t |-> "bool", n |-> k, s |-> ""]
StrVal(x) == [t |-> "str", n |-> 0, s |-> x]

IsNumber(v) == v.t \in {"int", "float"}

\* Order of two values of one column: numbers and booleans by value, strings
\* by ordinal.
ValLess(a, b) ==
    IF IsNumber(a) /\ IsNumber(b) THEN a.n < b.n
    ELSE IF a.t = "str" /\ b.t = "str" THEN StrLess(a.s, b.s)
    ELSE IF a.t = b.t THEN a.n < b.n
    ELSE IndexOf(<<"nan", "bool", "int", "float", "str">>, a.t)
             < IndexOf(<<"nan", "bool", "int", "float", "str">>, b.t)

\* The decimal literals that occur, and the numbers they denote.
Numerals == {"1", "3", "7", "20", "100"}

IntOf(text) ==
    CASE text = "1" -> 1 [] text = "3" -> 3 [] text = "7" -> 7
      [] text = "20" -> 20 [] text = "100" -> 100

TextOf(k) == CHOOSE text \in Numerals : IntOf(text) = k

\* The cells read_csv takes for booleans (its default true and false values).
Booleans == {"True", "False"}

BoolOf(text) == IF text = "True" THEN 1 ELSE 0

----------------------------------------------------------------------------
\* pd.read_csv

\* Cells read_csv takes for missing (its default na_values that occur).
NaValues == {"", "N/A"}

ColumnCells(f, c) == [i \in DOMAIN f.rows |-> f.rows[i][c]]

\* What the cells of column c that are not missing are, all the rows taken
\* together: numbers, booleans, or strings as soon as one is neither.
KindOf(f, c) ==
    LET cells == Range(ColumnCells(f, c)) \ NaValues
    IN  IF cells \subseteq Numerals THEN "number"
        ELSE IF cells \subseteq Booleans THEN "boolean"
        ELSE "string"

\* The dtype read_csv infers for column c: one dtype for the whole column.  A
\* missing cell makes a column of integers float64 and a column of booleans
\* object; a file without rows has object columns.
DtypeOf(f, c) ==
    LET missing == \E x \in Range(ColumnCells(f, c)) : x \in NaValues
    IN  IF f.rows = <<>> THEN "object"
        ELSE IF KindOf(f, c) = "number" THEN (IF missing THEN "float64" ELSE "int64")
        ELSE IF KindOf(f, c) = "boolean" THEN (IF missing THEN "object" ELSE "bool")
        ELSE "object"

Parse(text, kind, dtype) ==
    IF text \in NaValues THEN NaN
    ELSE IF kind = "number" THEN (IF dtype = "int64" THEN IntVal(IntOf(text))
                                  ELSE FloatVal(IntOf(text)))
    ELSE IF kind = "boolean" THEN BoolVal(BoolOf(text))
    ELSE StrVal(text)

read_csv(f) ==
    [columns |-> f.header,
     dtypes  |-> [c \in DOMAIN f.header |-> DtypeOf(f, c)],
     data    |-> [i \in DOMAIN f.rows |->
                     [c \in DOMAIN f.header |->
                         Parse(f.rows[i][c], KindOf(f, c), DtypeOf(f, c))]]]

----------------------------------------------------------------------------
\* Column names (line 20, 31, 43)

KeyCols == << <<"configuration">>, <<"sample_size">>, <<"iteration">> >>

\* col.startswith('param_')
startswith_param(name) == name # <<>> /\ Head(name) = "param_"

\* param.replace('param_', ''): str.replace removes every occurrence.
replace_param(name) == SelectSeq(name, LAMBDA x : x # "param_")

\* [col for col in results_df.columns if col.startswith('param_')]
ParamColumns(df) == SelectSeq(df.columns, startswith_param)

\* sorted(list): insertion sort, duplicates kept.
RECURSIVE Insert(_, _)
Insert(sorted, name) ==
    IF sorted = <<>> THEN <<name>>
    ELSE IF NameLess(name, Head(sorted)) THEN <<name>> \o sorted
    ELSE <<Head(sorted)>> \o Insert(Tail(sorted), name)

RECURSIVE SortedNames(_)
SortedNames(names) ==
    IF names = <<>> THEN <<>>
    ELSE Insert(SortedNames(SubSeq(names, 1, Len(names) - 1)), Last(names))

\* ['configuration', 'sample_size', 'iteration'] + sorted([p.replace(...) ...])
OrderedColumns(params) ==
    KeyCols \o SortedNames([c \in DOMAIN params |-> replace_param(params[c])])

----------------------------------------------------------------------------
\* results_df.groupby(['configuration', 'sample_size', 'iteration'])

Col(df, name) == IndexOf(df.columns, name)

\* The key columns the frame lacks: groupby raises KeyError for them.
MissingKeys(df) == {k \in Range(KeyCols) : k \notin Range(df.columns)}

KeyOf(df, r) == [k \in DOMAIN KeyCols |-> r[Col(df, KeyCols[k])]]

HasNaN(key) == \E k \in DOMAIN key : key[k] = NaN

\* Lexicographic order of two key tuples.
RECURSIVE KeyLess(_, _)
KeyLess(a, b) ==
    IF a = <<>> \/ b = <<>> THEN FALSE
    ELSE IF Head(a) # Head(b) THEN ValLess(Head(a), Head(b))
    ELSE KeyLess(Tail(a), Tail(b))

\* The keys of S as a sequence, ascending.
RECURSIVE SortedKeys(_)
SortedKeys(S) ==
    IF S = {} THEN <<>>
    ELSE LET least == CHOOSE x \in S : \A y \in S \ {x} : KeyLess(x, y)
         IN  <<least>> \o SortedKeys(S \ {least})

\* groupby's defaults: dropna=True leaves out the rows with a missing key,
\* sort=True orders the groups by key; a group keeps its rows in input order.
GroupKeys(df) == {KeyOf(df, df.data[i]) : i \in DOMAIN df.data} \ {k \in {KeyOf(df, df.data[i]) : i \in DOMAIN df.data} : HasNaN(k)}

GroupOrder(df) == SortedKeys(GroupKeys(df))

groupby(df) ==
    LET keys == GroupOrder(df)
    IN  [g \in DOMAIN keys |->
            [key  |-> keys[g],
             rows |-> SelectSeq(df.data, LAMBDA r : KeyOf(df, r) = keys[g])]]

----------------------------------------------------------------------------
\* The reduction of one parameter column within one group (lines 31-36)

\* group[param]
Values(df, g, param) == [i \in DOMAIN g.rows |-> g.rows[i][Col(df, param)]]

\* pd.api.types.is_numeric_dtype(values): the dtype of the whole column; bool
\* counts as numeric.
is_numeric_dtype(df, param) == df.dtypes[Col(df, param)] \in {"int64", "float64", "bool"}

Count(values, v) == Cardinality({i \in DOMAIN values : values[i] = v})

\* mode() without its sort: the most frequent values in the order they are met.
mode_first_seen(values) ==
    LET present == Range(values) \ {NaN}
        most    == {v \in present : \A w \in present : Count(values, w) <= Count(values, v)}
        firsts  == SelectSeq([i \in DOMAIN values |-> i],
                             LAMBDA i : values[i] \in most
                                        /\ \A k \in 1..(i - 1) : values[k] # values[i])
    IN  [i \in DOMAIN firsts |-> values[firsts[i]]]

\* Series.mode(): the most frequent non-missing values, sorted ascending.
RECURSIVE ModeOrder(_)
ModeOrder(S) ==
    IF S = {} THEN <<>>
    ELSE LET least == CHOOSE x \in S : \A y \in S \ {x} : ValLess(x, y)
         IN  <<least>> \o ModeOrder(S \ {least})

mode(values) ==
    LET present == Range(values) \ {NaN}
        most    == {v \in present : \A w \in present : Count(values, w) <= Count(values, v)}
    IN  ModeOrder(most)

Reduce(df, g, param) ==
    LET values == Values(df, g, param)
    IN  IF is_numeric_dtype(df, param) THEN values[1]
        ELSE IF mode(values) # <<>> THEN mode(values)[1]
        ELSE StrVal("N/A")

----------------------------------------------------------------------------
\* The row dictionaries and the summary frame (lines 25-29, 34-44)

\* A dict is the sequence of its items in insertion order.
DictKeys(d) == [i \in DOMAIN d |-> d[i].k]

DictGet(d, key) == d[IndexOf(DictKeys(d), key)].v

\* d[key] = v: a key already there keeps its place and takes the new value.
DictSet(d, key, v) ==
    IF key \in Range(DictKeys(d)) THEN [d EXCEPT ![IndexOf(DictKeys(d), key)].v = v]
    ELSE Append(d, [k |-> key, v |-> v])

\* {'configuration': config, 'sample_size': sample_size, 'iteration': iteration}
NewRow(key) == [k \in DOMAIN KeyCols |-> [k |-> KeyCols[k], v |-> key[k]]]

\* pd.DataFrame(rows)
DataFrame(dicts) ==
    IF dicts = <<>> THEN [columns |-> <<>>, data |-> <<>>]
    ELSE [columns |-> DictKeys(dicts[1]),
          data    |-> [i \in DOMAIN dicts |-> [c \in DOMAIN dicts[i] |-> dicts[i][c].v]]]

\* df[ordered_columns] raises KeyError when a name is no column of df.
CanSelect(df, names) == Range(names) \subseteq Range(df.columns)

Select(df, names) ==
    [columns |-> names,
     data    |-> [i \in DOMAIN df.data |->
                     [c \in DOMAIN names |-> df.data[i][IndexOf(df.columns, names[c])]]]]

----------------------------------------------------------------------------
\* to_csv, to_html (lines 53-54)

CsvCell(v) ==
    IF v.t = "nan" THEN ""
    ELSE IF v.t = "int" THEN TextOf(v.n)
    ELSE IF v.t = "float" THEN TextOf(v.n) \o ".0"
    ELSE IF v.t = "bool" THEN (IF v.n = 1 THEN "True" ELSE "False")
    ELSE v.s

HtmlCell(v) == IF v.t = "nan" THEN "NaN" ELSE CsvCell(v)

\* index=False: the header line, then one line per row.
HeaderLine(df) == [c \in DOMAIN df.columns |-> Join(df.columns[c])]

CsvText(df) ==
    <<HeaderLine(df)>>
        \o [i \in DOMAIN df.data |-> [c \in DOMAIN df.columns |-> CsvCell(df.data[i][c])]]

HtmlText(df) ==
    <<HeaderLine(df)>>
        \o [i \in DOMAIN df.data |-> [c \in DOMAIN df.columns |-> HtmlCell(df.data[i][c])]]

----------------------------------------------------------------------------
\* The input files and output directories the model draws from

param_lr == <<"param_", "lr">>
param_opt == <<"param_", "opt">>
param_param_lr == <<"param_", "param_", "lr">>
param_a_param_b == <<"param_", "a_", "param_", "b">>
param_configuration == <<"param_", "configuration">>

\* Key cells of a row: configuration, sample_size, iteration ("" is missing).
KeyCells == {<<"cfgA", "100", "1">>, <<"cfgA", "20", "1">>, <<"", "20", "1">>}
FewKeyCells == {<<"cfgA", "100", "1">>, <<"cfgB", "20", "1">>}

ParamCells == {"", "3", "7", "adam", "sgd"}
FewParamCells == {"3", "adam"}

NoFile == [exists |-> FALSE, header |-> <<>>, rows |-> <<>>]

\* The files with the key columns `keys` (a subsequence of KeyCols) and the
\* parameter columns `params`, of at most n rows.
FilesOf(keys, params, keyCells, paramCells, n) ==
    LET rowSet == {[k \in DOMAIN keys |-> kc[IndexOf(KeyCols, keys[k])]] \o pc_ :
                       kc \in keyCells, pc_ \in [DOMAIN params -> paramCells]}
    IN  {[exists |-> TRUE, header |-> keys \o params, rows |-> r] :
            r \in SeqsUpTo(rowSet, n)}

\* Tables with one parameter column, every kind of cell in it.
ReduceFiles == FilesOf(KeyCols, <<param_lr>>, KeyCells, ParamCells, MaxRows)

\* Tables of one group whose parameter column holds booleans.
BooleanFiles ==
    FilesOf(KeyCols, <<param_lr>>, {<<"cfgA", "100", "1">>}, {"", "True", "False", "adam"},
            MaxFileRows)

\* Tables of every header shape: no, one and two parameter columns, names
\* that hold the prefix twice, a parameter named like a key column.
HeaderFiles ==
    UNION {FilesOf(KeyCols, params, FewKeyCells, FewParamCells, MaxFileRows) :
              params \in {<<>>, <<param_opt, param_lr>>, <<param_lr, param_param_lr>>,
                          <<param_a_param_b>>, <<param_configuration>>}}

\* Files of complete and incomplete headers, and no file at all.
CallFiles ==
    {NoFile}
    \cup UNION {FilesOf(keys, <<param_lr>>, FewKeyCells, FewParamCells, MaxFileRows) :
                   keys \in {KeyCols, SubSeq(KeyCols, 1, 2), SubSeq(KeyCols, 2, 3), <<>>}}

output_path == "out"
csv_path == <<output_path, "optimal_parameters_summary_table.csv">>
html_path == <<output_path, "optimal_parameters_summary_table.html">>

Absent == [state |-> "absent", text |-> <<>>]

----------------------------------------------------------------------------
\* State

NoFrame == [columns |-> <<>>, dtypes |-> <<>>, data |-> <<>>]
NoSummary == [columns |-> <<>>, data |-> <<>>]
NoGroup == [key |-> <<>>, rows |-> <<>>]

\* The locals of a call at its entry.
Entry ==
    /\ pc = "read_csv"
    /\ results_df = NoFrame
    /\ param_columns = <<>>
    /\ groups = <<>>
    /\ group = NoGroup
    /\ row = <<>>
    /\ j = 0
    /\ rows = <<>>
    /\ df_summary = NoSummary
    /\ outcome = "running"
    /\ trace = <<>>

InitOf(files, dirs) ==
    /\ file \in files
    /\ fs \in [dir : dirs, csv : {Absent}, html : {Absent}]
    /\ stdout = <<>>
    /\ calls = 1
    /\ returns = <<>>
    /\ Entry

Init == InitOf(CallFiles, {"absent", "file"})

InitBuild == InitOf(ReduceFiles \cup BooleanFiles \cup HeaderFiles, {"absent"})

Step(name) == trace' = Append(trace, name)

Raise(error) == pc' = "raised" /\ outcome' = error

----------------------------------------------------------------------------
\* generate_optimal_parameter_table, step by step

locals == <<results_df, param_columns, groups, group, row, j, rows, df_summary>>
world == <<file, fs, stdout, calls, returns>>

\* line 17: results_df = pd.read_csv(input_path)
ReadCsv ==
    /\ pc = "read_csv"
    /\ IF file.exists
       THEN /\ results_df' = read_csv(file)
            /\ pc' = "param_columns"
            /\ Step("read_csv")
            /\ UNCHANGED outcome
       ELSE /\ Raise("FileNotFoundError")
            /\ UNCHANGED <<results_df, trace>>
    /\ UNCHANGED <<param_columns, groups, group, row, j, rows, df_summary, world>>

\* line 20: param_columns = [col for col in ... if col.startswith('param_')]
IdentifyParams ==
    /\ pc = "param_columns"
    /\ param_columns' = ParamColumns(results_df)
    /\ pc' = "groupby"
    /\ UNCHANGED <<results_df, groups, group, row, j, rows, df_summary, outcome, trace, world>>

\* groupby that takes a frame without a key column for a frame without groups.
GroupByUnchecked ==
    /\ pc = "groupby"
    /\ groups' = IF MissingKeys(results_df) = {} THEN groupby(results_df) ELSE <<>>
    /\ pc' = "for"
    /\ Step("groupby")
    /\ UNCHANGED <<outcome, results_df, param_columns, group, row, j, rows, df_summary, world>>

\* line 24: results_df.groupby([...]) raises KeyError for a missing key column
GroupBy ==
    /\ pc = "groupby"
    /\ IF MissingKeys(results_df) = {}
       THEN /\ groups' = groupby(results_df)
            /\ pc' = "for"
            /\ Step("groupby")
            /\ UNCHANGED outcome
       ELSE /\ Raise("KeyError")
            /\ UNCHANGED <<groups, trace>>
    /\ UNCHANGED <<results_df, param_columns, group, row, j, rows, df_summary, world>>

\* lines 24-29: the next group of the iteration, and its row of keys
NextGroup ==
    /\ pc = "for"
    /\ groups # <<>>
    /\ group' = Head(groups)
    /\ groups' = Tail(groups)
    /\ row' = NewRow(Head(groups).key)
    /\ j' = 0
    /\ pc' = "param"
    /\ UNCHANGED <<results_df, param_columns, rows, df_summary, outcome, trace, world>>

\* lines 30-36: row[param_name] = the reduction of the next parameter column
AssignParam ==
    /\ pc = "param"
    /\ j < Len(param_columns)
    /\ j' = j + 1
    /\ row' = DictSet(row, replace_param(param_columns[j + 1]),
                      Reduce(results_df, group, param_columns[j + 1]))
    /\ UNCHANGED <<pc, results_df, param_columns, groups, group, rows, df_summary,
                   outcome, trace, world>>

\* line 37: rows.append(row)
AppendRow ==
    /\ pc = "param"
    /\ j = Len(param_columns)
    /\ rows' = Append(rows, row)
    /\ pc' = "for"
    /\ Step("row")
    /\ UNCHANGED <<results_df, param_columns, groups, group, row, j, df_summary,
                   outcome, world>>

\* line 40: df_summary = pd.DataFrame(rows), once the groups are exhausted
CreateFrame ==
    /\ pc = "for"
    /\ groups = <<>>
    /\ df_summary' = DataFrame(rows)
    /\ pc' = "reorder"
    /\ Step("DataFrame")
    /\ UNCHANGED <<results_df, param_columns, groups, group, row, j, rows, outcome, world>>

\* lines 43-44: df_summary = df_summary[ordered_columns]
Reorder ==
    /\ pc = "reorder"
    /\ IF CanSelect(df_summary, OrderedColumns(param_columns))
       THEN /\ df_summary' = Select(df_summary, OrderedColumns(param_columns))
            /\ pc' = "makedirs"
            /\ Step("reorder")
            /\ UNCHANGED outcome
       ELSE /\ Raise("KeyError")
            /\ UNCHANGED <<df_summary, trace>>
    /\ UNCHANGED <<results_df, param_columns, groups, group, row, j, rows, world>>

\* line 47: os.makedirs(output_path, exist_ok=True)
MakeDirs ==
    /\ pc = "makedirs"
    /\ \E permitted \in BOOLEAN :
          IF fs.dir = "dir" \/ (fs.dir = "absent" /\ permitted)
          THEN /\ fs' = [fs EXCEPT !.dir = "dir"]
               /\ pc' = "to_csv"
               /\ Step("makedirs")
               /\ UNCHANGED outcome
          ELSE /\ Raise(IF fs.dir = "file" THEN "FileExistsError" ELSE "PermissionError")
               /\ UNCHANGED <<fs, trace>>
    /\ UNCHANGED <<locals, file, stdout, calls, returns>>

\* A file after open(path, 'a') and a complete write of text.
Appended(old, text) == [state |-> "written", text |-> old.text \o text]

\* A file after open(path, 'w') and a complete write of text.
Written(old, text) == [state |-> "written", text |-> text]

\* The outcomes of writing a file: written and closed, not opened (the old
\* file stays), or opened (truncated) and the write broken off.
WriteOutcomes == {"written", "not opened", "broken off"}

AfterWrite(old, text, result) ==
    IF result = "written" THEN Written(old, text)
    ELSE IF result = "not opened" THEN old
    ELSE [state |-> "partial", text |-> <<>>]

\* line 53: df_summary.to_csv(csv_path, index=False)
ToCsv ==
    /\ pc = "to_csv"
    /\ \E result \in WriteOutcomes :
          /\ fs' = [fs EXCEPT !.csv = AfterWrite(fs.csv, CsvText(df_summary), result)]
          /\ IF result = "written"
             THEN pc' = "to_html" /\ Step("to_csv") /\ UNCHANGED outcome
             ELSE Raise("OSError") /\ UNCHANGED trace
    /\ UNCHANGED <<locals, file, stdout, calls, returns>>

\* to_html whose failure takes the CSV file back.
ToHtmlOrNothing ==
    /\ pc = "to_html"
    /\ \E result \in WriteOutcomes :
          IF result = "written"
          THEN /\ fs' = [fs EXCEPT !.html = AfterWrite(fs.html, HtmlText(df_summary), result)]
               /\ pc' = "print" /\ Step("to_html") /\ UNCHANGED outcome
          ELSE /\ fs' = [fs EXCEPT !.csv = Absent]
               /\ Raise("OSError") /\ UNCHANGED trace
    /\ UNCHANGED <<locals, file, stdout, calls, returns>>

\* line 54: df_summary.to_html(html_path, index=False)
ToHtml ==
    /\ pc = "to_html"
    /\ \E result \in WriteOutcomes :
          /\ fs' = [fs EXCEPT !.html = AfterWrite(fs.html, HtmlText(df_summary), result)]
          /\ IF result = "written"
             THEN pc' = "print" /\ Step("to_html") /\ UNCHANGED outcome
             ELSE Raise("OSError") /\ UNCHANGED trace
    /\ UNCHANGED <<locals, file, stdout, calls, returns>>

\* print placed before the HTML write.
NotifyBeforeHtml ==
    /\ pc = "to_html"
    /\ Len(stdout) < calls
    /\ stdout' = Append(stdout, <<"Table saved to:", csv_path, html_path>>)
    /\ UNCHANGED <<pc, trace, locals, file, fs, calls, returns, outcome>>

\* line 56: print(f"Table saved to:\n- {csv_path}\n- {html_path}")
Notify ==
    /\ pc = "print"
    /\ stdout' = Append(stdout, <<"Table saved to:", csv_path, html_path>>)
    /\ pc' = "return"
    /\ Step("print")
    /\ UNCHANGED <<locals, file, fs, calls, returns, outcome>>

\* line 58: return df_summary
Return ==
    /\ pc = "return"
    /\ pc' = "returned"
    /\ outcome' = "returned"
    /\ returns' = Append(returns, [table |-> df_summary, csv |-> fs.csv])
    /\ Step("return")
    /\ UNCHANGED <<locals, file, fs, stdout, calls>>

\* The caller calls again, with the same input file and output directory.
Call ==
    /\ pc \in {"returned", "raised"}
    /\ calls < MaxCalls
    /\ calls' = calls + 1
    /\ pc' = "read_csv"
    /\ results_df' = NoFrame
    /\ param_columns' = <<>>
    /\ groups' = <<>>
    /\ group' = NoGroup
    /\ row' = <<>>
    /\ j' = 0
    /\ rows' = <<>>
    /\ df_summary' = NoSummary
    /\ outcome' = "running"
    /\ trace' = <<>>
    /\ UNCHANGED <<file, fs, stdout, returns>>

\* Lines 17-44: the table is built.
NextBuild ==
    \/ ReadCsv
    \/ IdentifyParams
    \/ GroupBy
    \/ NextGroup
    \/ AssignParam
    \/ AppendRow
    \/ CreateFrame
    \/ Reorder

Next ==
    \/ NextBuild
    \/ MakeDirs
    \/ ToCsv
    \/ ToHtml
    \/ Notify
    \/ Return
    \/ Call

\* Calls of the function, one after the other.
Spec == Init /\ [][Next]_vars

\* One call, up to the summary table.
SpecBuild == InitBuild /\ [][NextBuild]_vars

----------------------------------------------------------------------------
\* Lines 17-44 as one function of the file read

\* The row of group g once the first k parameter columns are reduced.
RECURSIVE RowAfter(_, _, _, _)
RowAfter(df, params, g, k) ==
    IF k = 0 THEN NewRow(g.key)
    ELSE DictSet(RowAfter(df, params, g, k - 1), replace_param(params[k]),
                 Reduce(df, g, params[k]))

\* The table built from file f; raised is TRUE when the build ends in KeyError.
Summary(f) ==
    LET df     == read_csv(f)
        params == ParamColumns(df)
        gs     == IF MissingKeys(df) = {} THEN groupby(df) ELSE <<>>
        frame  == DataFrame([g \in DOMAIN gs |-> RowAfter(df, params, gs[g], Len(params))])
    IN  IF MissingKeys(df) # {} \/ ~CanSelect(frame, OrderedColumns(params))
        THEN [raised |-> TRUE, table |-> NoSummary]
        ELSE [raised |-> FALSE, table |-> Select(frame, OrderedColumns(params))]

----------------------------------------------------------------------------
\* What the claims speak of

\* The table is built: lines 17-44 are done and persisting comes next.
Built == pc = "makedirs"

HasKeyColumns == file.exists /\ Range(KeyCols) \subseteq Range(file.header)

\* The distinct (configuration, sample_size, iteration) triples of the file's
\* rows, as written in the file.
InputKeys ==
    {[k \in DOMAIN KeyCols |-> file.rows[i][IndexOf(file.header, KeyCols[k])]] :
        i \in DOMAIN file.rows}

\* A parameter column has just been reduced for the current group (line 34
\* or 36 has assigned row[param_name]).
Assigned == pc = "param" /\ j >= 1

CurParam == param_columns[j]
CurValues == Values(results_df, group, CurParam)
CurValue == DictGet(row, replace_param(CurParam))

Present(values) == Range(values) \ {NaN}

MostFrequent(values) ==
    {v \in Present(values) : \A w \in Present(values) : Count(values, w) <= Count(values, v)}

\* A value that reads as a number, whatever the dtype of its column.
NumberLike(v) == IsNumber(v) \/ (v.t = "str" /\ v.s \in Numerals)
NumberOf(v) == IF IsNumber(v) THEN v.n ELSE IntOf(v.s)

\* A value that is a string and does not read as a number.
IsText(v) == v.t = "str" /\ v.s \notin Numerals

\* C1: for every input with the three key columns (a table without rows and
\* tables with a missing key cell included) the call builds a summary table
\* whose number of rows is the number of distinct key triples of the input.
C1_OneRowPerGroupKey ==
    HasKeyColumns =>
        /\ pc # "raised"
        /\ Built => Len(df_summary.data) = Cardinality(InputKeys)

\* C2 as stated: when a value of p in the group is non-numeric, the summary
\* value is a most frequent value of the group, of several the one met first
\* in input order.
C2_ModeFirstEncounteredOnTie ==
    (Assigned /\ \E i \in DOMAIN CurValues : CurValues[i] # NaN /\ ~NumberLike(CurValues[i])) =>
        LET first == CHOOSE i \in DOMAIN CurValues :
                        /\ CurValues[i] \in MostFrequent(CurValues)
                        /\ \A k \in 1..(i - 1) : CurValues[k] \notin MostFrequent(CurValues)
        IN  CurValue = CurValues[first]

\* C2 amended: when a value of p in the group is a string that is no number,
\* the value the reduction assigns for p is a most frequent non-missing value
\* of the group, of several the smallest in ascending order, whatever the
\* input order.
C2_ModeSmallestOnTie ==
    (Assigned /\ \E i \in DOMAIN CurValues : IsText(CurValues[i])) =>
        /\ CurValue \in MostFrequent(CurValues)
        /\ \A w \in MostFrequent(CurValues) \ {CurValue} : ValLess(CurValue, w)

\* A tie whose first value in input order is not its smallest: [sgd, adam].
C2_TieReduced ==
    /\ Assigned
    /\ CurValues = <<StrVal("sgd"), StrVal("adam")>>
    /\ CurValue = StrVal("adam")

\* C3: when p is missing in every row of the group, the summary value of the
\* group and column is the string "N/A", whatever the other groups hold.
C3_AllMissingIsNA ==
    (Assigned /\ \A i \in DOMAIN CurValues : CurValues[i] = NaN) =>
        CurValue = StrVal("N/A")

\* C4: when every value of p in the group is numeric, the summary value is
\* the value of p in the first row of the group.
C4_NumericIsFirstRow ==
    (Assigned /\ \A i \in DOMAIN CurValues : NumberLike(CurValues[i])) =>
        /\ NumberLike(CurValue)
        /\ NumberOf(CurValue) = NumberOf(CurValues[1])

\* Stripping the leading param_ prefix of a column name, and no more.
StripPrefix(name) == Tail(name)

NoDuplicates(names) == \A a, b \in DOMAIN names : names[a] = names[b] => a = b

\* C5: the columns of the table are configuration, sample_size, iteration and
\* then the parameter columns' names without their leading param_ prefix,
\* sorted ascending, no name twice.
C5_ColumnsArePrefixStripped ==
    Built =>
        LET params == SelectSeq(file.header, startswith_param)
        IN  /\ df_summary.columns
                  = KeyCols \o SortedNames([c \in DOMAIN params |-> StripPrefix(params[c])])
            /\ NoDuplicates(df_summary.columns)

\* The key cells of row i of the file, as written.
KeyText(f, i) == [k \in DOMAIN KeyCols |-> f.rows[i][IndexOf(f.header, KeyCols[k])]]

\* The orders of the file's rows that keep the order of the rows of a group.
GroupwiseOrders(f) ==
    {p \in [DOMAIN f.rows -> DOMAIN f.rows] :
        /\ \A a, b \in DOMAIN f.rows : p[a] = p[b] => a = b
        /\ \A a, b \in DOMAIN f.rows :
              (a < b /\ KeyText(f, p[a]) = KeyText(f, p[b])) => p[a] < p[b]}

Reordered(f, p) == [f EXCEPT !.rows = [i \in DOMAIN f.rows |-> f.rows[p[i]]]]

\* The table does not depend on the order of the input rows.
RowOrderIrrelevant ==
    (Built /\ HasKeyColumns) =>
        \A p \in GroupwiseOrders(file) : Summary(Reordered(file, p)).table = df_summary

\* The rows of the table ascend strictly in their first three columns.
RowsAscend ==
    Built =>
        \A i \in 1..(Len(df_summary.data) - 1) :
            KeyLess(SubSeq(df_summary.data[i], 1, 3), SubSeq(df_summary.data[i + 1], 1, 3))

\* C9: the rows of the table are strictly ascending in (configuration,
\* sample_size, iteration), and the table is the same for every order of the
\* input rows that keeps the order of the rows within each group.
C9_RowsAscendByKey == RowsAscend /\ RowOrderIrrelevant

\* The part of C9 that holds: the order of the input rows does not matter, and
\* the rows ascend unless a parameter column takes the name of a key column.
C9_AscendUnlessKeyOverwritten ==
    /\ RowOrderIrrelevant
    /\ (\A c \in DOMAIN param_columns : replace_param(param_columns[c]) \notin Range(KeyCols))
          => RowsAscend

\* The call builds the table that Summary gives for the file.
BuildIsSummary ==
    /\ Built => Summary(file) = [raised |-> FALSE, table |-> df_summary]
    /\ (pc = "raised" /\ file.exists) => Summary(file).raised

\* The steps a call has completed never leave the order of the pipeline.
Before(a, b) ==
    \A i, k \in DOMAIN trace : (trace[i] = a /\ trace[k] = b) => i < k

Done(step) == step \in Range(trace)

\* The table of this call is fully built: read, grouped, framed and ordered.
TableBuilt ==
    /\ Done("read_csv") /\ Done("groupby") /\ Done("DataFrame") /\ Done("reorder")
    /\ Before("read_csv", "groupby") /\ Before("groupby", "DataFrame")
    /\ Before("DataFrame", "reorder")

\* The output directory and files as they are before any call.
Untouched == fs.dir # "dir" /\ fs.csv = Absent /\ fs.html = Absent

\* C6: when a key column is absent from the header, the call ends in an
\* error raised before any group is formed or reduced; the output directory
\* is not created, no file is written, nothing is printed, nothing returned.
C6_MissingKeyColumnFailsFirst ==
    (file.exists /\ ~(Range(KeyCols) \subseteq Range(file.header))) =>
        /\ pc \in {"read_csv", "param_columns", "groupby", "raised"}
        /\ pc = "raised" => (outcome = "KeyError" /\ trace = <<"read_csv">>)
        /\ groups = <<>> /\ rows = <<>> /\ df_summary = NoSummary
        /\ Untouched
        /\ stdout = <<>>
        /\ returns = <<>>

\* A call on a file with rows and without a key column has ended in KeyError.
C6_KeyErrorRaised ==
    /\ file.exists /\ file.rows # <<>>
    /\ ~(Range(KeyCols) \subseteq Range(file.header))
    /\ pc = "raised" /\ outcome = "KeyError"

\* C7: the steps of a call come in the order read input, build table, create
\* the output directory, write CSV, write HTML, print: a step that touches
\* the directory or a file comes after the table is built, the CSV before the
\* HTML, and the notification after both files are written.
C7_PipelineOrder ==
    [][/\ fs' # fs => TableBuilt
       /\ fs'.dir # fs.dir => (~Done("makedirs") /\ ~Done("to_csv") /\ ~Done("to_html"))
       /\ fs'.csv # fs.csv => (Done("makedirs") /\ ~Done("to_csv") /\ ~Done("to_html"))
       /\ fs'.html # fs.html => (Done("makedirs") /\ Done("to_csv") /\ ~Done("to_html"))
       /\ stdout' # stdout =>
             /\ TableBuilt
             /\ Done("makedirs") /\ Done("to_csv") /\ Done("to_html")
             /\ Before("makedirs", "to_csv") /\ Before("to_csv", "to_html")
             /\ fs.csv = [state |-> "written", text |-> CsvText(df_summary)]
             /\ fs.html = [state |-> "written", text |-> HtmlText(df_summary)]
             /\ stdout' = Append(stdout, <<"Table saved to:", csv_path, html_path>>)
       /\ returns' # returns => Last(trace) = "print"]_vars

\* A call has run through: every step of the pipeline is done, in order.
C7_CallRanThrough ==
    /\ pc = "returned"
    /\ trace = <<"read_csv", "groupby", "row", "row", "DataFrame", "reorder",
                 "makedirs", "to_csv", "to_html", "print", "return">>
    /\ Len(stdout) = 1

\* C8: the calls that return, on the unchanged input file and the same output
\* directory, return the same table (rows, values, row order) and leave the
\* same CSV file: a call overwrites the file of the call before.
C8_CallsAgree ==
    \A i \in DOMAIN returns :
        /\ returns[i].table = returns[1].table
        /\ returns[i].csv = returns[1].csv
        /\ returns[i].csv = [state |-> "written", text |-> CsvText(returns[i].table)]

\* Two calls have returned a table of two rows, the second one finding the
\* directory and both files of the first.
C8_ReturnedTwice ==
    /\ Len(returns) >= 2
    /\ Len(returns[1].table.data) >= 2
    /\ pc = "returned"

====
